---- MODULE Spec2Model ----
(***************************************************************************)
(* Model of the command-line utilities catr, headr and wcr.                *)
(*                                                                         *)
(* Each utility is one `run` function: a loop over the source names, and   *)
(* for every source that opens an inner loop over its lines (or one read). *)
(* One action of the model is one branch of one loop iteration.  Bytes are *)
(* numbers 0..255, a Rust String is the sequence of its chars (code        *)
(* points), standard output is the sequence of bytes written to it.        *)
(***************************************************************************)
EXTENDS Integers, Sequences, FiniteSets

VARIABLES
    prog,        \* which utility runs: "catr", "headr", "wcr" ("chars": the pure function)
    args,        \* the parsed Args of that utility
    idx,         \* position of the `for filename in args.files` loop (1-based)
    pc,          \* "next": top of the file loop, "read": inside a source, "done"
    data,        \* unread bytes of the open source (headr)
    atEof,       \* the open source has delivered its final, unterminated line (catr)
    count,       \* catr: `count`, the line number counter of the open source
    last_blank,  \* catr: `last_blank`
    nleft,       \* headr: iterations left of `for _ in 0..args.lines`
    totals,      \* wcr: `totals`
    out,         \* bytes written to standard output
    err,         \* diagnostics written to standard error, in order
    result,      \* "none" while running, then what run returned: "Ok" or "Err"
    budget,      \* input units the environment may still deliver
    marks,       \* history: one record per source reached by the file loop
    emitted,     \* history: catr, one record per line printed
    seen,        \* history: catr, every line read (after the transformations)
    readErr,     \* history: "none", or why a read of an open source returned Err:
                 \* "io" (the read failed) or "utf8" (the bytes are not UTF-8)
    cin,         \* input of show_nonprinting_chars (pure function specification)
    cout         \* its result

vars == <<prog, args, idx, pc, data, atEof, count, last_blank, nleft, totals,
          out, err, result, budget, marks, emitted, seen, readErr, cin, cout>>

-----------------------------------------------------------------------------
(* Bounds of the model *)

MaxFiles == 2

MaxUnits == 3

MaxN == 2

MaxLen == 2

-----------------------------------------------------------------------------
(* Bytes, chars and strings *)

LF == 10

TAB == 9

CR == 13

Dash == <<45>>

Min(a, b) == IF a <= b THEN a ELSE b

RECURSIVE Flatten(_)
Flatten(ss) == IF ss = <<>> THEN <<>> ELSE Head(ss) \o Flatten(Tail(ss))

Take(s, n) == SubSeq(s, 1, Min(n, Len(s)))

Drop(s, n) == SubSeq(s, Min(n, Len(s)) + 1, Len(s))

SeqsUpTo(S, n) == UNION {[1..k -> S] : k \in 0..n}

IsCont(b) == b \in 128..191

\* Length of the UTF-8 encoded char that starts at s[i], 0 when the bytes there
\* are not valid UTF-8.  One- and two-byte forms; the leads 0xE0..0xF4 of the
\* longer forms are in none of the input alphabets below.
Utf8Len(s, i) ==
    IF s[i] < 128 THEN 1
    ELSE IF s[i] \in 194..223 /\ i + 1 <= Len(s) /\ IsCont(s[i + 1]) THEN 2
    ELSE 0

RECURSIVE ValidFrom(_, _)
ValidFrom(s, i) ==
    IF i > Len(s) THEN TRUE
    ELSE IF Utf8Len(s, i) = 0 THEN FALSE
    ELSE ValidFrom(s, i + Utf8Len(s, i))

ValidUtf8(s) == ValidFrom(s, 1)

RECURSIVE CharsFrom(_, _)
CharsFrom(s, i) ==
    IF i > Len(s) THEN <<>>
    ELSE IF Utf8Len(s, i) = 2
         THEN <<(s[i] - 192) * 64 + (s[i + 1] - 128)>> \o CharsFrom(s, i + 2)
         ELSE <<s[i]>> \o CharsFrom(s, i + 1)

\* The chars of a valid UTF-8 byte string.
Chars(s) == CharsFrom(s, 1)

EncodeChar(c) == IF c < 128 THEN <<c>> ELSE <<192 + (c \div 64), 128 + (c % 64)>>

\* The bytes a String of chars is written as.
Encode(cs) == Flatten([i \in 1..Len(cs) |-> EncodeChar(cs[i])])

Replacement == <<239, 191, 189>>

RECURSIVE LossyFrom(_, _)
LossyFrom(s, i) ==
    IF i > Len(s) THEN <<>>
    ELSE IF Utf8Len(s, i) = 0 THEN Replacement \o LossyFrom(s, i + 1)
    ELSE SubSeq(s, i, i + Utf8Len(s, i) - 1) \o LossyFrom(s, i + Utf8Len(s, i))

\* String::from_utf8_lossy, as the bytes print! then writes.
FromUtf8Lossy(s) == LossyFrom(s, 1)

RECURSIVE Digits(_)
Digits(n) == IF n < 10 THEN <<48 + n>> ELSE Digits(n \div 10) \o <<48 + (n % 10)>>

\* format!("{:>w}", n)
FormatRight(n, w) ==
    LET d == Digits(n)
    IN  IF Len(d) >= w THEN d ELSE [i \in 1..(w - Len(d)) |-> 32] \o d

ReplaceChar(s, c, rep) ==
    Flatten([i \in 1..Len(s) |-> IF s[i] = c THEN rep ELSE <<s[i]>>])

-----------------------------------------------------------------------------
(* catr: show_nonprinting_chars *)

HexDigit(n) == IF n < 10 THEN 48 + n ELSE 97 + (n - 10)

RECURSIVE HexMin(_)
HexMin(n) == IF n < 16 THEN <<HexDigit(n)>> ELSE HexMin(n \div 16) \o <<HexDigit(n % 16)>>

\* char::escape_default, formatted: \t \r \n \' \" \\ are backslash escapes,
\* 0x20..0x7e stand for themselves, anything else is \u{h..} with the fewest
\* (lower case) hex digits.
EscapeDefault(c) ==
    IF c = TAB THEN <<92, 116>>
    ELSE IF c = CR THEN <<92, 114>>
    ELSE IF c = LF THEN <<92, 110>>
    ELSE IF c \in {39, 34, 92} THEN <<92, c>>
    ELSE IF c \in 32..126 THEN <<c>>
    ELSE <<92, 117, 123>> \o HexMin(c) \o <<125>>

\* The key the table spells "\\u{hl}": a backslash, u, {, two hex digits, }.
TableKey(n) == <<92, 117, 123, HexDigit(n \div 16), HexDigit(n % 16), 125>>

\* The code points the table has an entry for under a "\\u{hl}" key.
TableCodes == (1..8) \cup (11..31) \cup {127}

\* The first key is written "\u{00}", one backslash: the one-char string NUL.
CaretKeys == {<<0>>} \cup {TableKey(n) : n \in TableCodes}

caret_encoding ==
    [k \in CaretKeys |->
        IF k = <<0>> THEN <<94, 64>>
        ELSE LET n == CHOOSE m \in TableCodes : TableKey(m) = k
             IN  IF n = 127 THEN <<94, 63>> ELSE <<94, n + 64>>]

RECURSIVE CaretLoop(_, _, _)
CaretLoop(line, i, converted) ==
    IF i > Len(line) THEN converted
    ELSE LET ce == EscapeDefault(line[i])
         IN  CaretLoop(line, i + 1,
                       IF ce \in CaretKeys
                       THEN ReplaceChar(converted, line[i], caret_encoding[ce])
                       ELSE converted)

show_nonprinting_chars(line) == CaretLoop(line, 1, line)

-----------------------------------------------------------------------------
(* The sources *)

\* args.files: the model keeps its length, args.nfiles, and draws each name
\* when the file loop reaches it (the code reads files[i] in iteration i only).
\* "-" is standard input, "f" a path.
Names == {Dash, <<102>>}

FileCounts == 1..MaxFiles

OpenDiag(name) == [kind |-> "open", name |-> name]

FatalDiag == [kind |-> "fatal"]

\* run returned Err(e): main prints e and exits with status 1.
Abort(kind) ==
    /\ result' = "Err"
    /\ pc' = "done"
    /\ err' = Append(err, FatalDiag)
    /\ readErr' = kind

\* History record of one source: its name, whether it opened, the length of
\* standard output when the loop reached it, the bytes of the header written
\* for it, its content (where the model fixes it at open) and whether its
\* processing ran to its end.
Mark(name, opened, hdr, content) ==
    [name |-> name, opened |-> opened, from |-> Len(out), hdr |-> hdr,
     content |-> content, finished |-> ~opened]

Finished(ms) == [ms EXCEPT ![Len(ms)].finished = TRUE]

-----------------------------------------------------------------------------
(* catr *)

\* The command lines of the model: any number of names, -A or not, -n, -b or
\* neither, -s or not.  -e, -t, -E, -T and -v alone are left out: -A sets all
\* three of the flags they set.
CatrRawArgs ==
    {a \in [nfiles : FileCounts, show_all : BOOLEAN, number_nonblank_lines : BOOLEAN,
            show_nonprint_ends : {FALSE}, show_ends : {FALSE}, number_lines : BOOLEAN,
            squeeze_blank : BOOLEAN, show_nonprint_tabs : {FALSE}, show_tabs : {FALSE},
            show_nonprinting : {FALSE}] :
        ~(a.number_lines /\ a.number_nonblank_lines)}

\* The expansion of -A, -e and -t at the start of run.
CatrExpand(a) ==
    [a EXCEPT
        !.show_nonprinting = @ \/ a.show_all \/ a.show_nonprint_ends \/ a.show_nonprint_tabs,
        !.show_ends = @ \/ a.show_all \/ a.show_nonprint_ends,
        !.show_tabs = @ \/ a.show_all \/ a.show_nonprint_tabs]

CatrUnits == {31, 255}

\* What the reader can deliver next with n units left: a line ended by LF, or
\* the unterminated rest of the source.
RawLines(n) ==
    {b \o <<LF>> : b \in SeqsUpTo(CatrUnits, n - 1)}
        \cup (SeqsUpTo(CatrUnits, n) \ {<<>>})

\* BufRead::lines: the line without its "\n" or "\r\n".
StripEol(raw) ==
    IF raw # <<>> /\ raw[Len(raw)] = LF
    THEN LET s == SubSeq(raw, 1, Len(raw) - 1)
         IN  IF s # <<>> /\ s[Len(s)] = CR THEN SubSeq(s, 1, Len(s) - 1) ELSE s
    ELSE raw

\* The line after the -T and -v transformations.
CatrTransform(line) ==
    LET l1 == IF args.show_tabs THEN ReplaceChar(line, TAB, <<94, 73>>) ELSE line
    IN  IF args.show_nonprinting THEN show_nonprinting_chars(l1) ELSE l1

CatrSuppress(line) == args.squeeze_blank /\ line = <<>> /\ last_blank

CatrNumbered(line) ==
    args.number_lines \/ (args.number_nonblank_lines /\ line # <<>>)

CatrPrefix(n) == FormatRight(n, 6) \o <<TAB>>

CatrEnd == IF args.show_ends THEN <<36>> ELSE <<>>

CatrInit ==
    /\ prog = "catr"
    /\ \E raw \in CatrRawArgs : args = CatrExpand(raw)

CatrOpenFail ==
    /\ prog = "catr" /\ pc = "next" /\ idx <= args.nfiles
    /\ \E filename \in Names \ {Dash} :
          /\ err' = Append(err, OpenDiag(filename))
          /\ marks' = Append(marks, Mark(filename, FALSE, 0, <<>>))
    /\ idx' = idx + 1
    /\ UNCHANGED <<prog, args, pc, data, atEof, count, last_blank, nleft, totals,
                   out, result, budget, emitted, seen, readErr, cin, cout>>

\* Variant: the blank flag starts afresh with every source.
CatrOpenOk_ResetBlank ==
    /\ prog = "catr" /\ pc = "next" /\ idx <= args.nfiles
    /\ pc' = "read"
    /\ count' = 1
    /\ atEof' = FALSE
    /\ last_blank' = FALSE
    /\ \E filename \in Names : marks' = Append(marks, Mark(filename, TRUE, 0, <<>>))
    /\ UNCHANGED <<prog, args, idx, data, nleft, totals, out, err,
                   result, budget, emitted, seen, readErr, cin, cout>>

\* Variant: the line counter runs on from the previous source.
CatrOpenOk_KeepCount ==
    /\ prog = "catr" /\ pc = "next" /\ idx <= args.nfiles
    /\ pc' = "read"
    /\ atEof' = FALSE
    /\ \E filename \in Names : marks' = Append(marks, Mark(filename, TRUE, 0, <<>>))
    /\ UNCHANGED <<prog, args, idx, data, count, last_blank, nleft, totals, out, err,
                   result, budget, emitted, seen, readErr, cin, cout>>

CatrOpenOk ==
    /\ prog = "catr" /\ pc = "next" /\ idx <= args.nfiles
    /\ pc' = "read"
    /\ count' = 1
    /\ atEof' = FALSE
    /\ \E filename \in Names : marks' = Append(marks, Mark(filename, TRUE, 0, <<>>))
    /\ UNCHANGED <<prog, args, idx, data, last_blank, nleft, totals, out, err,
                   result, budget, emitted, seen, readErr, cin, cout>>

\* One iteration of `for line in source.lines()` whose item is Ok or, for bytes
\* that are not UTF-8, Err.
CatrLine ==
    /\ prog = "catr" /\ pc = "read" /\ ~atEof /\ budget > 0
    /\ \E raw \in RawLines(budget) :
          /\ budget' = budget - Len(raw)
          /\ atEof' = (raw[Len(raw)] # LF)
          /\ IF ~ValidUtf8(raw)
             THEN /\ Abort("utf8")
                  /\ UNCHANGED <<count, last_blank, out, emitted, seen>>
             ELSE LET line == CatrTransform(Chars(StripEol(raw)))
                  IN  /\ seen' = Append(seen, [text |-> line, src |-> idx])
                      /\ IF CatrSuppress(line)
                         THEN UNCHANGED <<count, last_blank, out, emitted>>
                         ELSE /\ out' = out
                                    \o (IF CatrNumbered(line) THEN CatrPrefix(count) ELSE <<>>)
                                    \o Encode(line) \o CatrEnd \o <<LF>>
                              /\ count' = IF CatrNumbered(line) THEN count + 1 ELSE count
                              /\ last_blank' = (line = <<>>)
                              /\ emitted' = Append(emitted,
                                    [text |-> line, src |-> idx,
                                     num |-> IF CatrNumbered(line) THEN count ELSE 0])
                      /\ UNCHANGED <<pc, err, result, readErr>>
    /\ UNCHANGED <<prog, args, idx, data, nleft, totals, marks, cin, cout>>

\* The iteration's item is Err: the read of the underlying source failed.
CatrReadErr ==
    /\ prog = "catr" /\ pc = "read"
    /\ Abort("io")
    /\ UNCHANGED <<prog, args, idx, data, atEof, count, last_blank, nleft, totals,
                   out, budget, marks, emitted, seen, cin, cout>>

\* lines() is exhausted: on to the next name.
CatrEof ==
    /\ prog = "catr" /\ pc = "read"
    /\ pc' = "next"
    /\ idx' = idx + 1
    /\ marks' = Finished(marks)
    /\ UNCHANGED <<prog, args, data, atEof, count, last_blank, nleft, totals, out,
                   err, result, budget, emitted, seen, readErr, cin, cout>>

CatrReturn ==
    /\ prog = "catr" /\ pc = "next" /\ idx > args.nfiles
    /\ pc' = "done"
    /\ result' = "Ok"
    /\ UNCHANGED <<prog, args, idx, data, atEof, count, last_blank, nleft, totals,
                   out, err, budget, marks, emitted, seen, readErr, cin, cout>>

-----------------------------------------------------------------------------
(* Lines of a byte stream *)

\* BufRead::read_line on unread bytes d (not empty): the bytes through the first
\* LF, or all of d when it holds none.
FirstLine(d) ==
    IF \E i \in 1..Len(d) : d[i] = LF
    THEN SubSeq(d, 1, CHOOSE i \in 1..Len(d) : d[i] = LF /\ \A j \in 1..(i - 1) : d[j] # LF)
    ELSE d

\* The contents the environment can give a source with n units left, as
\* sequences of units (a unit is the bytes of one char, or one byte that is
\* not UTF-8).
UnitSeqs(units, n) == SeqsUpTo(units, n)

-----------------------------------------------------------------------------
(* headr *)

\* args.bytes is an Option: 0 stands for None (the parser admits only N >= 1).
HeadrArgs ==
    [nfiles : FileCounts, lines : 1..MaxN, bytes : {0}]
        \cup [nfiles : FileCounts, lines : {10}, bytes : 1..MaxN]

HeadrUnits == {<<97>>, <<LF>>, <<255>>}

\* Variant: the blank line goes before every header that follows output.
HeadrHeader_AfterOutput(name, i) ==
    (IF out # <<>> THEN <<LF>> ELSE <<>>) \o <<61, 61, 62, 32>> \o name \o <<32, 60, 61, 61>> \o <<LF>>

\* println!("{}==> {filename} <==", if file_count > 0 {"\n"} else {""})
HeadrHeader(name, i) ==
    (IF i > 1 THEN <<LF>> ELSE <<>>) \o <<61, 61, 62, 32>> \o name \o <<32, 60, 61, 61>> \o <<LF>>

\* What one read call with a buffer of n bytes can return on unread bytes d:
\* 0 at the end of the stream, else any count up to the bytes asked for (a
\* regular file gives all of them, a pipe or terminal what has arrived).
ReadSizes(n, d) == IF d = <<>> THEN {0} ELSE 1..Min(n, Len(d))

HeadrInit ==
    /\ prog = "headr"
    /\ args \in HeadrArgs

\* Variant: a source that does not open ends the run.
HeadrOpenFail_Fatal ==
    /\ prog = "headr" /\ pc = "next" /\ idx <= args.nfiles
    /\ \E filename \in Names \ {Dash} :
          /\ err' = Append(err, OpenDiag(filename))
          /\ marks' = Append(marks, Mark(filename, FALSE, 0, <<>>))
    /\ result' = "Err"
    /\ pc' = "done"
    /\ UNCHANGED <<prog, args, idx, data, atEof, count, last_blank, nleft, totals,
                   out, budget, emitted, seen, readErr, cin, cout>>

HeadrOpenFail ==
    /\ prog = "headr" /\ pc = "next" /\ idx <= args.nfiles
    /\ \E filename \in Names \ {Dash} :
          /\ err' = Append(err, OpenDiag(filename))
          /\ marks' = Append(marks, Mark(filename, FALSE, 0, <<>>))
    /\ idx' = idx + 1
    /\ UNCHANGED <<prog, args, pc, data, atEof, count, last_blank, nleft, totals,
                   out, result, budget, emitted, seen, readErr, cin, cout>>

\* The source opens: its header when there are several names, then the read
\* loop starts.
HeadrOpenOk ==
    /\ prog = "headr" /\ pc = "next" /\ idx <= args.nfiles
    /\ \E filename \in Names : \E u \in UnitSeqs(HeadrUnits, budget) :
          LET hdr == IF args.nfiles > 1 THEN HeadrHeader(filename, idx) ELSE <<>>
              d == Flatten(u)
          IN  /\ data' = d
              /\ budget' = budget - Len(u)
              /\ out' = out \o hdr
              /\ marks' = Append(marks, Mark(filename, TRUE, Len(hdr), d))
    /\ nleft' = args.lines
    /\ pc' = "read"
    /\ UNCHANGED <<prog, args, idx, atEof, count, last_blank, totals, err, result,
                   emitted, seen, readErr, cin, cout>>

\* -c N: one read into a buffer of N bytes, printed as a lossy String.
HeadrBytes ==
    /\ prog = "headr" /\ pc = "read" /\ args.bytes > 0
    /\ \E bytes_read \in ReadSizes(args.bytes, data) :
          /\ out' = out \o FromUtf8Lossy(Take(data, bytes_read))
          /\ data' = Drop(data, bytes_read)
    /\ pc' = "next"
    /\ idx' = idx + 1
    /\ marks' = Finished(marks)
    /\ UNCHANGED <<prog, args, atEof, count, last_blank, nleft, totals, err, result,
                   budget, emitted, seen, readErr, cin, cout>>

\* Variant: the iteration does not count against args.lines.
HeadrLine_NoLimit ==
    /\ prog = "headr" /\ pc = "read" /\ args.bytes = 0
    /\ nleft > 0 /\ data # <<>>
    /\ LET buf == FirstLine(data)
       IN  /\ data' = Drop(data, Len(buf))
           /\ IF ~ValidUtf8(buf)
              THEN /\ Abort("utf8")
                   /\ UNCHANGED <<out, nleft>>
              ELSE /\ out' = out \o buf
                   /\ UNCHANGED <<nleft, pc, err, result, readErr>>
    /\ UNCHANGED <<prog, args, idx, atEof, count, last_blank, totals, budget, marks,
                   emitted, seen, cin, cout>>

\* One iteration of `for _ in 0..args.lines` in which read_line returns a line,
\* or Err for bytes that are not UTF-8.
HeadrLine ==
    /\ prog = "headr" /\ pc = "read" /\ args.bytes = 0
    /\ nleft > 0 /\ data # <<>>
    /\ LET buf == FirstLine(data)
       IN  /\ data' = Drop(data, Len(buf))
           /\ IF ~ValidUtf8(buf)
              THEN /\ Abort("utf8")
                   /\ UNCHANGED <<out, nleft>>
              ELSE /\ out' = out \o buf
                   /\ nleft' = nleft - 1
                   /\ UNCHANGED <<pc, err, result, readErr>>
    /\ UNCHANGED <<prog, args, idx, atEof, count, last_blank, totals, budget, marks,
                   emitted, seen, cin, cout>>

\* The loop ends: all of args.lines iterations are done, or read_line returned 0.
HeadrBreak ==
    /\ prog = "headr" /\ pc = "read" /\ args.bytes = 0
    /\ nleft = 0 \/ data = <<>>
    /\ pc' = "next"
    /\ idx' = idx + 1
    /\ marks' = Finished(marks)
    /\ UNCHANGED <<prog, args, data, atEof, count, last_blank, nleft, totals, out,
                   err, result, budget, emitted, seen, readErr, cin, cout>>

\* read or read_line returns Err: the read of the underlying source failed.
HeadrReadErr ==
    /\ prog = "headr" /\ pc = "read"
    /\ args.bytes > 0 \/ nleft > 0
    /\ Abort("io")
    /\ UNCHANGED <<prog, args, idx, data, atEof, count, last_blank, nleft, totals,
                   out, budget, marks, emitted, seen, cin, cout>>

HeadrReturn ==
    /\ prog = "headr" /\ pc = "next" /\ idx > args.nfiles
    /\ pc' = "done"
    /\ result' = "Ok"
    /\ UNCHANGED <<prog, args, idx, data, atEof, count, last_blank, nleft, totals,
                   out, err, budget, marks, emitted, seen, readErr, cin, cout>>

-----------------------------------------------------------------------------
(* wcr *)

\* The command lines of the model: -l or not, -m or not (-w and -c are shown
\* by the default, when no flag is given).
WcrRawArgs ==
    {a \in [nfiles : FileCounts, lines : BOOLEAN, words : {FALSE}, bytes : {FALSE},
            chars : BOOLEAN] : ~(a.bytes /\ a.chars)}

\* No flag given: lines, words and bytes.
WcrExpand(a) ==
    IF ~a.lines /\ ~a.words /\ ~a.bytes /\ ~a.chars
    THEN [a EXCEPT !.lines = TRUE, !.words = TRUE, !.bytes = TRUE]
    ELSE a

WcrUnits == {<<32>>, <<LF>>, <<195, 169>>}

FileInfoDefault == [line_count |-> 0, word_count |-> 0, byte_count |-> 0, char_count |-> 0]

\* char::is_whitespace, for the chars below U+0800.
IsWhitespace(c) == c \in {9, 10, 11, 12, 13, 32, 133, 160}

\* line.split_whitespace().count()
SplitWhitespaceCount(cs) ==
    Cardinality({i \in 1..Len(cs) :
        ~IsWhitespace(cs[i]) /\ (i = 1 \/ IsWhitespace(cs[i - 1]))})

\* The loop of counter on unread bytes d; io is the number of read_line calls
\* the underlying source still serves before one fails (-1: none fails).  An
\* Err of read_line, for a failed read or for bytes that are not UTF-8, does
\* not match `while let Ok(..)`: the loop ends and the counts so far are kept.
RECURSIVE CounterLoop(_, _, _)
CounterLoop(d, io, file_counts) ==
    IF io = 0 \/ d = <<>> THEN file_counts
    ELSE LET line == FirstLine(d)
         IN  IF ~ValidUtf8(line) THEN file_counts
             ELSE CounterLoop(Drop(d, Len(line)), IF io > 0 THEN io - 1 ELSE io,
                    [line_count |-> file_counts.line_count + 1,
                     byte_count |-> file_counts.byte_count + Len(line),
                     word_count |-> file_counts.word_count + SplitWhitespaceCount(Chars(line)),
                     char_count |-> file_counts.char_count + Len(Chars(line))])

counter(d, io) == CounterLoop(d, io, FileInfoDefault)

format_output(n, show) == IF show THEN FormatRight(n, 8) ELSE <<>>

WcrFields(fc) ==
    format_output(fc.line_count, args.lines) \o format_output(fc.word_count, args.words)
        \o format_output(fc.byte_count, args.bytes) \o format_output(fc.char_count, args.chars)

WcrLine(fc, name) ==
    WcrFields(fc) \o (IF name = Dash THEN <<>> ELSE <<32>> \o name) \o <<LF>>

WcrTotalLine(fc) == WcrFields(fc) \o <<32, 116, 111, 116, 97, 108>> \o <<LF>>

\* Number of lines of d: its LF bytes, and a last unterminated run if any.
LineCount(d) ==
    Cardinality({i \in 1..Len(d) : d[i] = LF})
        + (IF d # <<>> /\ d[Len(d)] # LF THEN 1 ELSE 0)

\* Variant: the character count is left out of the totals.
AddCounts_NoChars(t, c) ==
    [line_count |-> t.line_count + c.line_count,
     word_count |-> t.word_count + c.word_count,
     byte_count |-> t.byte_count + c.byte_count,
     char_count |-> t.char_count]

AddCounts(t, c) ==
    [line_count |-> t.line_count + c.line_count,
     word_count |-> t.word_count + c.word_count,
     byte_count |-> t.byte_count + c.byte_count,
     char_count |-> t.char_count + c.char_count]

WcrInit ==
    /\ prog = "wcr"
    /\ \E raw \in WcrRawArgs : args = WcrExpand(raw)

WcrOpenFail ==
    /\ prog = "wcr" /\ pc = "next" /\ idx <= args.nfiles
    /\ \E filename \in Names \ {Dash} :
          /\ err' = Append(err, OpenDiag(filename))
          /\ marks' = Append(marks, Mark(filename, FALSE, 0, <<>>))
    /\ idx' = idx + 1
    /\ UNCHANGED <<prog, args, pc, data, atEof, count, last_blank, nleft, totals,
                   out, result, budget, emitted, seen, readErr, cin, cout>>

\* The source opens: counter reads it, its line is printed, totals are updated.
WcrCount ==
    /\ prog = "wcr" /\ pc = "next" /\ idx <= args.nfiles
    /\ \E filename \in Names : \E u \in UnitSeqs(WcrUnits, budget) :
       \E io \in (-1..(LineCount(Flatten(u)) - 1)) \cup {0} :
          LET d == Flatten(u)
              current_counts == counter(d, io)
          IN  /\ budget' = budget - Len(u)
              /\ out' = out \o WcrLine(current_counts, filename)
              /\ totals' = AddCounts(totals, current_counts)
              /\ emitted' = Append(emitted, current_counts)
              /\ marks' = Append(marks,
                    [Mark(filename, TRUE, 0, d) EXCEPT !.finished = TRUE])
              /\ readErr' = IF io >= 0 THEN "io"
                             ELSE IF ~ValidUtf8(d) THEN "utf8" ELSE readErr
    /\ idx' = idx + 1
    /\ UNCHANGED <<prog, args, pc, data, atEof, count, last_blank, nleft, err,
                   result, seen, cin, cout>>

\* After the loop: the totals line when several names were given.
WcrReturn ==
    /\ prog = "wcr" /\ pc = "next" /\ idx > args.nfiles
    /\ out' = IF args.nfiles > 1 THEN out \o WcrTotalLine(totals) ELSE out
    /\ pc' = "done"
    /\ result' = "Ok"
    /\ UNCHANGED <<prog, args, idx, data, atEof, count, last_blank, nleft, totals,
                   err, budget, marks, emitted, seen, readErr, cin, cout>>

-----------------------------------------------------------------------------
(* The line transformations of catr as a function of one line *)

\* A line holds no line feed.
CharCodes == ((0..31) \ {LF}) \cup {65, 94, 127, 233}

CharsInit ==
    /\ prog = "chars"
    /\ args \in [show_tabs : BOOLEAN, show_nonprinting : BOOLEAN]

TransformLine ==
    /\ prog = "chars" /\ pc = "next"
    /\ cout' = CatrTransform(cin)
    /\ pc' = "done"
    /\ UNCHANGED <<prog, args, idx, data, atEof, count, last_blank, nleft, totals,
                   out, err, result, budget, marks, emitted, seen, readErr, cin>>

-----------------------------------------------------------------------------
(* Specifications *)

InitRest ==
    /\ idx = 1 /\ pc = "next" /\ data = <<>> /\ atEof = FALSE /\ count = 1
    /\ last_blank = FALSE /\ nleft = 0
    /\ totals = FileInfoDefault
    /\ out = <<>> /\ err = <<>> /\ result = "none" /\ budget = MaxUnits
    /\ marks = <<>> /\ emitted = <<>> /\ seen = <<>> /\ readErr = "none"
    /\ cout = <<>>

Init ==
    /\ CatrInit \/ HeadrInit \/ WcrInit
    /\ InitRest
    /\ cin = <<>>

Next ==
    \/ CatrOpenFail
    \/ CatrOpenOk
    \/ CatrLine
    \/ CatrReadErr
    \/ CatrEof
    \/ CatrReturn
    \/ HeadrOpenFail
    \/ HeadrOpenOk
    \/ HeadrBytes
    \/ HeadrLine
    \/ HeadrBreak
    \/ HeadrReadErr
    \/ HeadrReturn
    \/ WcrOpenFail
    \/ WcrCount
    \/ WcrReturn

Spec == Init /\ [][Next]_vars

InitCatr == CatrInit /\ InitRest /\ cin = <<>>

NextCatr ==
    \/ CatrOpenFail
    \/ CatrOpenOk
    \/ CatrLine
    \/ CatrReadErr
    \/ CatrEof
    \/ CatrReturn

SpecCatr == InitCatr /\ [][NextCatr]_vars

InitHeadr == HeadrInit /\ InitRest /\ cin = <<>>

NextHeadr ==
    \/ HeadrOpenFail
    \/ HeadrOpenOk
    \/ HeadrBytes
    \/ HeadrLine
    \/ HeadrBreak
    \/ HeadrReadErr
    \/ HeadrReturn

SpecHeadr == InitHeadr /\ [][NextHeadr]_vars

InitWcr == WcrInit /\ InitRest /\ cin = <<>>

NextWcr ==
    \/ WcrOpenFail
    \/ WcrCount
    \/ WcrReturn

SpecWcr == InitWcr /\ [][NextWcr]_vars

InitChars ==
    /\ CharsInit
    /\ InitRest
    /\ cin \in SeqsUpTo(CharCodes, MaxLen)

NextChars == TransformLine

SpecChars == InitChars /\ [][NextChars]_vars

-----------------------------------------------------------------------------
(* Properties of catr *)

RECURSIVE KeepWhere(_, _, _)
KeepWhere(s, keep, i) ==
    IF i > Len(s) THEN <<>>
    ELSE (IF i \in keep THEN <<s[i]>> ELSE <<>>) \o KeepWhere(s, keep, i + 1)

Texts(rs) == [i \in 1..Len(rs) |-> rs[i].text]

\* A sequence of lines with every run of empty lines cut down to its first.
SqueezeRuns(ls) ==
    KeepWhere(ls, {i \in 1..Len(ls) : ~(ls[i] = <<>> /\ i > 1 /\ ls[i - 1] = <<>>)}, 1)

\* C2: with squeeze-blank, the lines printed are the lines read, over all
\* sources taken as one stream, with every run of two or more empty lines
\* collapsed to one: no two empty lines are printed in a row, within a source
\* or across a source boundary.  Without numbering and end marks no empty line
\* follows an empty line in the bytes of standard output either.
Thm_C2_SqueezeBlank ==
    (prog = "catr" /\ args.squeeze_blank) =>
        /\ Texts(emitted) = SqueezeRuns(Texts(seen))
        /\ \A i \in 1..(Len(emitted) - 1) :
              ~(emitted[i].text = <<>> /\ emitted[i + 1].text = <<>>)
        /\ (~args.show_ends /\ ~args.number_lines) =>
              /\ ~(Len(out) >= 2 /\ out[1] = LF /\ out[2] = LF)
              /\ \A i \in 1..(Len(out) - 2) :
                    ~(out[i] = LF /\ out[i + 1] = LF /\ out[i + 2] = LF)

\* C2 witness: the first source ends in two empty lines, the second starts with
\* one, and one empty line is printed for the three.
Wit_C2_SqueezeBlank ==
    /\ prog = "catr" /\ args.squeeze_blank /\ result = "Ok"
    /\ Len(seen) = 3
    /\ \A i \in 1..3 : seen[i].text = <<>>
    /\ seen[1].src = 1 /\ seen[2].src = 1 /\ seen[3].src = 2
    /\ Len(emitted) = 1

NumberedBefore(i) ==
    Cardinality({j \in 1..(i - 1) : emitted[j].src = emitted[i].src /\ emitted[j].num # 0})

\* The bytes of one printed line: the number right-aligned in 6 columns and a
\* tab when it is numbered, the text, "$" with show-ends, the line feed.
PrintedLine(e) ==
    (IF e.num = 0 THEN <<>>
     ELSE IF e.num < 10 THEN <<32, 32, 32, 32, 32, 48 + e.num, TAB>>
     ELSE FormatRight(e.num, 6) \o <<TAB>>)
        \o Encode(e.text) \o (IF args.show_ends THEN <<36>> ELSE <<>>) \o <<LF>>

\* C10: a printed line is numbered exactly when -n is on, or -b is on and the
\* line is not empty; the numbers of one source are 1, 2, 3, ... in order, with
\* no gap and no repeat, whatever was squeezed away; standard output is the
\* printed lines, each with its prefix; inside a source the counter is one
\* more than the lines numbered so far in it.
Thm_C10_Numbering ==
    prog = "catr" =>
        /\ \A i \in 1..Len(emitted) :
              /\ (emitted[i].num # 0) <=>
                    (args.number_lines
                        \/ (args.number_nonblank_lines /\ emitted[i].text # <<>>))
              /\ emitted[i].num # 0 => emitted[i].num = 1 + NumberedBefore(i)
        /\ out = Flatten([i \in 1..Len(emitted) |-> PrintedLine(emitted[i])])
        /\ pc = "read" =>
              count = 1 + Cardinality({j \in 1..Len(emitted) :
                                         emitted[j].src = idx /\ emitted[j].num # 0})

\* C10 witness: -n, two numbered lines from the first source and one from the
\* second, whose number is 1 again.
Wit_C10_Numbering ==
    /\ prog = "catr" /\ args.number_lines /\ result = "Ok"
    /\ Len(emitted) = 3
    /\ emitted[1].src = 1 /\ emitted[2].src = 1 /\ emitted[3].src = 2
    /\ emitted[1].num = 1 /\ emitted[2].num = 2 /\ emitted[3].num = 1

-----------------------------------------------------------------------------
(* Properties of headr *)

\* The bytes written to standard output for source i after its header.
BlockEnd(i) == IF i < Len(marks) THEN marks[i + 1].from ELSE Len(out)

Block(i) == SubSeq(out, marks[i].from + marks[i].hdr + 1, BlockEnd(i))

HeaderOf(i) == SubSeq(out, marks[i].from + 1, marks[i].from + marks[i].hdr)

LfPositions(d) == {i \in 1..Len(d) : d[i] = LF}

\* The first n lines of d with their terminators: d through its n-th line
\* feed, all of d when it has fewer.
FirstLines(d, n) ==
    IF Cardinality(LfPositions(d)) >= n
    THEN SubSeq(d, 1, CHOOSE p \in LfPositions(d) :
                         Cardinality({q \in LfPositions(d) : q <= p}) = n)
    ELSE d

IsPrefix(a, b) == Len(a) <= Len(b) /\ SubSeq(b, 1, Len(a)) = a

\* C4 as claimed: with -c N the block of every source is the first min(N, B)
\* of its B bytes, and is never longer than N bytes.
Cex_C4_ByteMode ==
    (prog = "headr" /\ args.bytes > 0) =>
        \A i \in 1..Len(marks) :
            (marks[i].opened /\ marks[i].finished) =>
                /\ Block(i) = Take(marks[i].content, args.bytes)
                /\ Len(Block(i)) <= args.bytes

\* C5: with -n N the block of every source read to the end of its loop is its
\* first min(N, L) lines, terminators included, whatever the sources before it
\* gave; while a source is read, what is printed of it is a prefix of those
\* lines; the source ending before N lines is no error.
Thm_C5_LineMode ==
    (prog = "headr" /\ args.bytes = 0) =>
        \A i \in 1..Len(marks) :
            marks[i].opened =>
                /\ IsPrefix(Block(i), FirstLines(marks[i].content, args.lines))
                /\ marks[i].finished =>
                      /\ Block(i) = FirstLines(marks[i].content, args.lines)
                      /\ LineCount(Block(i)) = Min(args.lines, LineCount(marks[i].content))
                /\ (readErr = "none" /\ pc = "done") => marks[i].finished

\* C5 witness: N = 1, the first source has two lines and gets one printed, the
\* second has one unterminated line and gets it printed.
Wit_C5_LineMode ==
    /\ prog = "headr" /\ args.bytes = 0 /\ args.lines = 1 /\ result = "Ok"
    /\ Len(marks) = 2
    /\ marks[1].opened /\ LineCount(marks[1].content) = 2 /\ LineCount(Block(1)) = 1
    /\ marks[2].opened /\ marks[2].content = <<97>> /\ Block(2) = <<97>>

HeaderLine(name) == <<61, 61, 62, 32>> \o name \o <<32, 60, 61, 61, LF>>

FirstOpened(i) == marks[i].opened /\ \A j \in 1..(i - 1) : ~marks[j].opened

\* C6 as claimed: with several names each block follows its header line; the
\* first block printed has nothing before its header, every later one has a
\* blank line before it: the line before the header ended and an empty line
\* follows it.
Cex_C6_Headers ==
    (prog = "headr" /\ args.nfiles > 1) =>
        \A i \in 1..Len(marks) :
            marks[i].opened =>
                IF FirstOpened(i)
                THEN marks[i].from = 0 /\ HeaderOf(i) = HeaderLine(marks[i].name)
                ELSE /\ HeaderOf(i) = <<LF>> \o HeaderLine(marks[i].name)
                     /\ marks[i].from >= 1 /\ out[marks[i].from] = LF

\* C6 amended: with several names each block follows its header line, and one
\* line feed is written before the header exactly when the source is not the
\* first name of the list, whether the names before it opened or not and
\* whatever the output before it ends with; with one name no header is
\* written.
Thm_C6_Headers ==
    prog = "headr" =>
        \A i \in 1..Len(marks) :
            /\ (marks[i].opened /\ args.nfiles > 1) =>
                  HeaderOf(i) = (IF i > 1 THEN <<LF>> ELSE <<>>) \o HeaderLine(marks[i].name)
            /\ (~marks[i].opened \/ args.nfiles = 1) => marks[i].hdr = 0

\* C6 witness: the first name does not open, the second does: its header is
\* the first output and a line feed precedes it.
Wit_C6_Headers ==
    /\ prog = "headr" /\ args.nfiles = 2 /\ Len(marks) = 2
    /\ ~marks[1].opened /\ marks[2].opened
    /\ out[1] = LF

-----------------------------------------------------------------------------
(* Properties of wcr *)

RECURSIVE SumCounts(_)
SumCounts(cs) ==
    IF cs = <<>> THEN [line_count |-> 0, word_count |-> 0, byte_count |-> 0, char_count |-> 0]
    ELSE LET r == SumCounts(Tail(cs))
         IN  [line_count |-> Head(cs).line_count + r.line_count,
              word_count |-> Head(cs).word_count + r.word_count,
              byte_count |-> Head(cs).byte_count + r.byte_count,
              char_count |-> Head(cs).char_count + r.char_count]

\* A count right-aligned in 8 columns.
Column(n) ==
    IF n < 10 THEN <<32, 32, 32, 32, 32, 32, 32, 48 + n>> ELSE FormatRight(n, 8)

\* The columns of a report line: lines, words, bytes, characters, each only
\* when its kind is shown.
Columns(fc) ==
    (IF args.lines THEN Column(fc.line_count) ELSE <<>>)
        \o (IF args.words THEN Column(fc.word_count) ELSE <<>>)
        \o (IF args.bytes THEN Column(fc.byte_count) ELSE <<>>)
        \o (IF args.chars THEN Column(fc.char_count) ELSE <<>>)

OpenedMarks == KeepWhere(marks, {i \in 1..Len(marks) : marks[i].opened}, 1)

\* C7: at every point of the run each field of totals is the sum of that field
\* over the counts printed so far, one per source that opened; standard output
\* is those report lines in order and, once run has returned with more than
\* one name given, one more line with the columns of the totals and the label
\* "total"; so the totals line is there whenever more than one source was
\* processed.
Thm_C7_Totals ==
    prog = "wcr" =>
        /\ totals = SumCounts(emitted)
        /\ Len(emitted) = Len(OpenedMarks)
        /\ out = Flatten([k \in 1..Len(emitted) |->
                    Columns(emitted[k])
                        \o (IF OpenedMarks[k].name = Dash THEN <<>>
                            ELSE <<32>> \o OpenedMarks[k].name)
                        \o <<LF>>])
                 \o (IF pc = "done" /\ args.nfiles > 1
                     THEN Columns(SumCounts(emitted)) \o <<32, 116, 111, 116, 97, 108, LF>>
                     ELSE <<>>)
        /\ (pc = "done" /\ Len(emitted) > 1) => args.nfiles > 1

\* C7 witness: two sources were counted, the one has more bytes than
\* characters, and the totals line is printed.
Wit_C7_Totals ==
    /\ prog = "wcr" /\ pc = "done" /\ Len(emitted) = 2
    /\ emitted[1].byte_count > emitted[1].char_count
    /\ emitted[2].line_count > 0
    /\ totals.char_count > 0

-----------------------------------------------------------------------------
(* Properties of the three utilities *)

FailedMarks == KeepWhere(marks, {i \in 1..Len(marks) : ~marks[i].opened}, 1)

OpenDiags == SelectSeq(err, LAMBDA e : e.kind = "open")

\* C1: in every run, the diagnostics for sources that did not open are one
\* per such source, in order, each naming it; such a source writes nothing to
\* standard output; the blocks of the sources lie in standard output in the
\* order of the names; a run ends with Err only after a read of an open
\* source returned Err; and a run in which no read returned Err ends with Ok
\* after the loop reached every name and every source that opened was
\* processed to its end (wcr: all its lines and bytes are counted).
Thm_C1_OpenFailures ==
    /\ Len(OpenDiags) = Len(FailedMarks)
    /\ \A k \in 1..Len(FailedMarks) : OpenDiags[k] = [kind |-> "open", name |-> FailedMarks[k].name]
    /\ \A i \in 1..Len(marks) :
          /\ i < Len(marks) => marks[i].from <= marks[i + 1].from
          /\ ~marks[i].opened =>
                /\ i < Len(marks) => marks[i + 1].from = marks[i].from
                /\ (i = Len(marks) /\ pc = "next") => Len(out) = marks[i].from
    /\ result = "Err" => readErr # "none"
    /\ (pc = "done" /\ readErr = "none") =>
          /\ result = "Ok"
          /\ Len(marks) = args.nfiles
          /\ Len(err) = Len(FailedMarks)
          /\ \A i \in 1..Len(marks) : marks[i].finished
          /\ prog = "wcr" =>
                \A k \in 1..Len(emitted) :
                    /\ emitted[k].byte_count = Len(OpenedMarks[k].content)
                    /\ emitted[k].line_count = LineCount(OpenedMarks[k].content)

\* C1 witness: of two names the first does not open and the second does; the
\* run ends with Ok, one diagnostic, and the output of the second.
Wit_C1_OpenFailures ==
    /\ pc = "done" /\ result = "Ok" /\ readErr = "none"
    /\ Len(marks) = 2 /\ ~marks[1].opened /\ marks[2].opened
    /\ Len(err) = 1 /\ out # <<>>

\* C8 as claimed: once a read of an open source has failed, run has returned
\* Err: nothing more is counted or printed and the exit status is not zero.
Cex_C8_ReadErrorFatal ==
    readErr = "io" => (pc = "done" /\ result = "Err")

\* C9 as claimed: bytes that are not UTF-8 never end the run with an error.
Cex_C9_InvalidUtf8 ==
    result = "Err" => readErr = "io"

-----------------------------------------------------------------------------
(* Properties of the line transformations *)

ControlCodes == (0..8) \cup (11..31) \cup {127}

\* What a char of the line becomes under the flags: "^I" for a tab with
\* show-tabs, the caret notation for a control char with show-nonprinting.
Shown(c) ==
    IF c = TAB THEN (IF args.show_tabs THEN <<94, 73>> ELSE <<TAB>>)
    ELSE IF args.show_nonprinting /\ c \in ControlCodes THEN <<94, (c + 64) % 128>>
    ELSE <<c>>

\* C3 as claimed: the transformed line is the line with every char replaced by
\* what it is shown as.
Cex_C3_CaretNotation ==
    (prog = "chars" /\ pc = "done") =>
        cout = Flatten([i \in 1..Len(cin) |-> Shown(cin[i])])

====
